---------------------------- MODULE Spec2Model ----------------------------
(***************************************************************************)
(* State-machine model of the NWQEC transpiler core:                       *)
(*   - the Circuit gate-adding bindings (python bindings, cpp_cli.md),     *)
(*   - apply_transforms and the module-level transforms built on it,       *)
(*   - Transpiler::execute_passes / create_pass / print_pass_stats,        *)
(*   - the predefined PassSequences.                                       *)
(* The passes themselves and the Circuit class are not part of the         *)
(* sources at hand; they are modelled from the design document.            *)
(***************************************************************************)
EXTENDS Integers, Sequences, FiniteSets, TLC

VARIABLES
    circuit,    \* the caller's circuit (the python Circuit object / the C++ input)
    raised,     \* "" or the exception the last call propagated to the caller
    pc,         \* position of the driver: "idle", "loop", "done", "thrown"
    passes,     \* execute_passes: the pass list
    config,     \* execute_passes: the PassConfig
    idx,        \* execute_passes: index of the next entry of the pass list
    work,       \* execute_passes: the owned unique_ptr<Circuit> (<<>> = empty/destroyed)
    cout,       \* rows written to std::cout
    cerr,       \* lines written to std::cerr
    created,    \* history: result of every create_pass call of the current run
    runlog,     \* history: every Pass::run invocation (entry, circuit before, after)
    ret,        \* the unique_ptr<Circuit> handed back to the caller (<<>> = none)
    call,       \* the entry point the caller used, with its arguments
    gridsynth   \* build flag NWQEC_WITH_GRIDSYNTH_CPP

vars == <<circuit, raised, pc, passes, config, idx, work, cout, cerr, created,
          runlog, ret, call, gridsynth>>

driverVars == <<pc, passes, config, idx, work, cout, cerr, created, runlog, ret, call>>

-----------------------------------------------------------------------------
(* Bounds *)

\* longest operation sequence built through the Circuit bindings
MaxOps == 2
\* longest free-form pass list handed to execute_passes
MaxPasses == 2

-----------------------------------------------------------------------------
(* Generic helpers *)

RECURSIVE SeqsUpTo(_, _)
SeqsUpTo(S, n) ==
    IF n = 0 THEN {<<>>}
    ELSE LET shorter == SeqsUpTo(S, n - 1)
         IN  shorter \cup {Append(s, x) : s \in {t \in shorter : Len(t) = n - 1}, x \in S}

RECURSIVE Flatten(_)
Flatten(ss) == IF ss = <<>> THEN <<>> ELSE Head(ss) \o Flatten(Tail(ss))

MaxOf(a, b) == IF a >= b THEN a ELSE b

Abs(x) == IF x < 0 THEN -x ELSE x

-----------------------------------------------------------------------------
(* Operation, PauliOp, Circuit *)

PauliTypes == {"T_PAULI", "S_PAULI", "Z_PAULI", "M_PAULI"}

\* the value of an Operation's pauli member when the operation carries none
NoPauli == [negative |-> FALSE, ops |-> <<>>]

\* Operation(type, qubits, params, bits, pauli)
Operation(type, qubits, params, bits, pauli) ==
    [type |-> type, qubits |-> qubits, params |-> params, bits |-> bits, pauli |-> pauli]

Gate(type, qubits) == Operation(type, qubits, <<>>, <<>>, NoPauli)

\* PauliOp::from_string: "+XIZ" -> sign and one Pauli per qubit; the text is a
\* sequence of characters.  Valid iff ^[+-][XYZI]{n}$.
PauliStringValid(n, p) ==
    /\ Len(p) = n + 1
    /\ p[1] \in {"+", "-"}
    /\ \A i \in 2..Len(p) : p[i] \in {"X", "Y", "Z", "I"}

from_string(p) == [negative |-> (p[1] = "-"), ops |-> Tail(p)]

\* a Circuit: registers and the ordered operation vector
NewCircuit(nq) == [num_qubits |-> nq, num_cbits |-> 0, operations |-> <<>>]

MakeCircuit(nq, nc, ops) == [num_qubits |-> nq, num_cbits |-> nc, operations |-> ops]

\* Circuit::add_operation: append-only insertion
add_operation(c, op) == [c EXCEPT !.operations = Append(@, op)]


-----------------------------------------------------------------------------
(* Python bindings: exclusivity helpers *)

is_pauli_op(t) == t \in PauliTypes

is_barrier(t) == t = "BARRIER"

circuit_has_pauli_ops(c) ==
    \E i \in 1..Len(c.operations) : is_pauli_op(c.operations[i].type)

circuit_has_non_pauli_ops(c) ==
    \E i \in 1..Len(c.operations) :
        ~is_pauli_op(c.operations[i].type) /\ ~is_barrier(c.operations[i].type)

-----------------------------------------------------------------------------
(* Python bindings: the Circuit gate-adding methods *)

\* number of qubits of the circuits built through the bindings
NumQubits == 2

Qubits == 0..(NumQubits - 1)

\* angles are counted in units of pi/8
M_PI == 8

Thetas == {1, 2}

Multipliers == {1}

Cbits == {0}

BarrierArgs == {<<>>} \cup {<<q>> : q \in Qubits}

UniformPauli(sign, letter) == <<sign>> \o [i \in 1..NumQubits |-> letter]

\* well-formed strings of the circuit's width, and one of the wrong length
PauliInputs ==
    {UniformPauli(sg, l) : sg \in {"+", "-"}, l \in {"X", "Z"}} \cup {<<"+">>}

\* the caller may still add an operation (model bound on the circuit's length)
CanCall == Len(circuit.operations) < MaxOps

Throw(what) ==
    /\ raised' = what
    /\ UNCHANGED circuit

Added(op) ==
    /\ circuit' = add_operation(circuit, op)
    /\ raised' = ""

\* x, y and z lambdas that add the gate before they look at the circuit
CheckedGateAddsFirst(type, q) ==
    /\ circuit' = add_operation(circuit, Gate(type, <<q>>))
    /\ raised' = IF circuit_has_pauli_ops(circuit) THEN "RuntimeError" ELSE ""

\* the bodies of the x, y and z lambdas
CheckedGate(type, q) ==
    IF circuit_has_pauli_ops(circuit)
    THEN Throw("RuntimeError")
    ELSE Added(Gate(type, <<q>>))

\* the bodies of the lambdas that add without looking at the circuit
UncheckedOp(op) == Added(op)

\* the bodies of the t_pauli, m_pauli, s_pauli and z_pauli lambdas
PauliAdder(type, p) ==
    IF circuit_has_non_pauli_ops(circuit)
    THEN Throw("RuntimeError")
    ELSE IF ~PauliStringValid(circuit.num_qubits, p)
         THEN Throw("from_string")
         ELSE Added(Operation(type, <<>>, <<>>, <<>>, from_string(p)))

Circuit_x(q) == CanCall /\ CheckedGate("X", q) /\ UNCHANGED <<driverVars, gridsynth>>
Circuit_y(q) == CanCall /\ CheckedGate("Y", q) /\ UNCHANGED <<driverVars, gridsynth>>
Circuit_z(q) == CanCall /\ CheckedGate("Z", q) /\ UNCHANGED <<driverVars, gridsynth>>
Circuit_h(q) == CanCall /\ UncheckedOp(Gate("H", <<q>>)) /\ UNCHANGED <<driverVars, gridsynth>>
Circuit_s(q) == CanCall /\ UncheckedOp(Gate("S", <<q>>)) /\ UNCHANGED <<driverVars, gridsynth>>
Circuit_sdg(q) == CanCall /\ UncheckedOp(Gate("SDG", <<q>>)) /\ UNCHANGED <<driverVars, gridsynth>>
Circuit_t(q) == CanCall /\ UncheckedOp(Gate("T", <<q>>)) /\ UNCHANGED <<driverVars, gridsynth>>
Circuit_tdg(q) == CanCall /\ UncheckedOp(Gate("TDG", <<q>>)) /\ UNCHANGED <<driverVars, gridsynth>>
Circuit_sx(q) == CanCall /\ UncheckedOp(Gate("SX", <<q>>)) /\ UNCHANGED <<driverVars, gridsynth>>
Circuit_sxdg(q) == CanCall /\ UncheckedOp(Gate("SXDG", <<q>>)) /\ UNCHANGED <<driverVars, gridsynth>>
Circuit_cx(q0, q1) == CanCall /\ UncheckedOp(Gate("CX", <<q0, q1>>)) /\ UNCHANGED <<driverVars, gridsynth>>
Circuit_ccx(q0, q1, q2) ==
    CanCall /\ UncheckedOp(Gate("CCX", <<q0, q1, q2>>)) /\ UNCHANGED <<driverVars, gridsynth>>
Circuit_cz(q0, q1) == CanCall /\ UncheckedOp(Gate("CZ", <<q0, q1>>)) /\ UNCHANGED <<driverVars, gridsynth>>
Circuit_swap(q0, q1) == CanCall /\ UncheckedOp(Gate("SWAP", <<q0, q1>>)) /\ UNCHANGED <<driverVars, gridsynth>>
Circuit_rx(q, th) ==
    CanCall /\ UncheckedOp(Operation("RX", <<q>>, <<th>>, <<>>, NoPauli))
            /\ UNCHANGED <<driverVars, gridsynth>>
Circuit_rxp(q, m) ==
    CanCall /\ UncheckedOp(Operation("RX", <<q>>, <<m * M_PI>>, <<>>, NoPauli))
            /\ UNCHANGED <<driverVars, gridsynth>>
Circuit_ry(q, th) ==
    CanCall /\ UncheckedOp(Operation("RY", <<q>>, <<th>>, <<>>, NoPauli))
            /\ UNCHANGED <<driverVars, gridsynth>>
Circuit_ryp(q, m) ==
    CanCall /\ UncheckedOp(Operation("RY", <<q>>, <<m * M_PI>>, <<>>, NoPauli))
            /\ UNCHANGED <<driverVars, gridsynth>>
Circuit_rz(q, th) ==
    CanCall /\ UncheckedOp(Operation("RZ", <<q>>, <<th>>, <<>>, NoPauli))
            /\ UNCHANGED <<driverVars, gridsynth>>
Circuit_rzp(q, m) ==
    CanCall /\ UncheckedOp(Operation("RZ", <<q>>, <<m * M_PI>>, <<>>, NoPauli))
            /\ UNCHANGED <<driverVars, gridsynth>>
Circuit_measure(q, b) ==
    CanCall /\ UncheckedOp(Operation("MEASURE", <<q>>, <<>>, <<b>>, NoPauli))
            /\ UNCHANGED <<driverVars, gridsynth>>
Circuit_reset(q) == CanCall /\ UncheckedOp(Gate("RESET", <<q>>)) /\ UNCHANGED <<driverVars, gridsynth>>
Circuit_barrier(qs) == CanCall /\ UncheckedOp(Gate("BARRIER", qs)) /\ UNCHANGED <<driverVars, gridsynth>>
Circuit_t_pauli(p) == CanCall /\ PauliAdder("T_PAULI", p) /\ UNCHANGED <<driverVars, gridsynth>>
Circuit_m_pauli(p) == CanCall /\ PauliAdder("M_PAULI", p) /\ UNCHANGED <<driverVars, gridsynth>>
Circuit_s_pauli(p) == CanCall /\ PauliAdder("S_PAULI", p) /\ UNCHANGED <<driverVars, gridsynth>>
Circuit_z_pauli(p) == CanCall /\ PauliAdder("Z_PAULI", p) /\ UNCHANGED <<driverVars, gridsynth>>

\* struct PassConfig and its default member initialisers
PassConfig(keep_ccx, keep_cx, epsilon_override, silent) ==
    [keep_ccx |-> keep_ccx, keep_cx |-> keep_cx, epsilon_override |-> epsilon_override,
     silent |-> silent]

DefaultPassConfig == PassConfig(FALSE, FALSE, -1, FALSE)

NoCall ==
    [fn |-> "", to_pbc |-> FALSE, to_clifford_reduction |-> FALSE,
     t_pauli_opt |-> FALSE, remove_pauli |-> FALSE, epsilon |-> <<>>, sequence |-> ""]

DriverIdle ==
    /\ pc = "idle"
    /\ passes = <<>>
    /\ config = DefaultPassConfig
    /\ idx = 1
    /\ work = <<>>
    /\ cout = <<>>
    /\ cerr = <<>>
    /\ created = <<>>
    /\ runlog = <<>>
    /\ ret = <<>>
    /\ call = NoCall

\* Circuit(num_qubits): an empty circuit with one register
InitBuild ==
    /\ circuit = NewCircuit(NumQubits)
    /\ raised = ""
    /\ gridsynth = TRUE
    /\ DriverIdle

NextBuild ==
    \/ \E q \in Qubits : Circuit_x(q)
    \/ \E q \in Qubits : Circuit_y(q)
    \/ \E q \in Qubits : Circuit_z(q)
    \/ \E q \in Qubits : Circuit_h(q)
    \/ \E q \in Qubits : Circuit_s(q)
    \/ \E q \in Qubits : Circuit_sdg(q)
    \/ \E q \in Qubits : Circuit_t(q)
    \/ \E q \in Qubits : Circuit_tdg(q)
    \/ \E q \in Qubits : Circuit_sx(q)
    \/ \E q \in Qubits : Circuit_sxdg(q)
    \/ \E q0, q1 \in Qubits : Circuit_cx(q0, q1)
    \/ \E q0, q1, q2 \in Qubits : Circuit_ccx(q0, q1, q2)
    \/ \E q0, q1 \in Qubits : Circuit_cz(q0, q1)
    \/ \E q0, q1 \in Qubits : Circuit_swap(q0, q1)
    \/ \E q \in Qubits, th \in Thetas : Circuit_rx(q, th)
    \/ \E q \in Qubits, m \in Multipliers : Circuit_rxp(q, m)
    \/ \E q \in Qubits, th \in Thetas : Circuit_ry(q, th)
    \/ \E q \in Qubits, m \in Multipliers : Circuit_ryp(q, m)
    \/ \E q \in Qubits, th \in Thetas : Circuit_rz(q, th)
    \/ \E q \in Qubits, m \in Multipliers : Circuit_rzp(q, m)
    \/ \E q \in Qubits, b \in Cbits : Circuit_measure(q, b)
    \/ \E q \in Qubits : Circuit_reset(q)
    \/ \E qs \in BarrierArgs : Circuit_barrier(qs)
    \/ \E p \in PauliInputs : Circuit_t_pauli(p)
    \/ \E p \in PauliInputs : Circuit_m_pauli(p)
    \/ \E p \in PauliInputs : Circuit_s_pauli(p)
    \/ \E p \in PauliInputs : Circuit_z_pauli(p)

SpecBuild == InitBuild /\ [][NextBuild]_vars

-----------------------------------------------------------------------------
(* C2: PBC exclusivity of circuits built through the bindings.  No circuit
   reached through the gate-adding methods holds both a Pauli-based operation
   and a non-Pauli, non-barrier operation. *)
C2_PBCExclusivity ==
    ~(circuit_has_pauli_ops(circuit) /\ circuit_has_non_pauli_ops(circuit))


-----------------------------------------------------------------------------
(* Circuit inspection: count_ops, depth, is_clifford_t *)

TypesOf(c) == {c.operations[i].type : i \in 1..Len(c.operations)}

\* Circuit::count_ops: operation name -> number of occurrences
count_ops(c) ==
    [t \in TypesOf(c) |-> Cardinality({i \in 1..Len(c.operations) : c.operations[i].type = t})]

\* the qubits an operation occupies
OpQubits(op) ==
    IF is_pauli_op(op.type)
    THEN {i - 1 : i \in {j \in 1..Len(op.pauli.ops) : op.pauli.ops[j] # "I"}}
    ELSE {op.qubits[i] : i \in 1..Len(op.qubits)}

RECURSIVE SetMax(_)
SetMax(S) ==
    IF S = {} THEN 0
    ELSE LET x == CHOOSE y \in S : TRUE IN MaxOf(x, SetMax(S \ {x}))

RECURSIVE DepthFrom(_, _, _)
DepthFrom(ops, level, best) ==
    IF ops = <<>> THEN best
    ELSE LET op == Head(ops)
             qs == OpQubits(op) \cap DOMAIN level
             at == 1 + SetMax({level[q] : q \in qs})
         IN  IF is_barrier(op.type) \/ qs = {}
             THEN DepthFrom(Tail(ops), level, best)
             ELSE DepthFrom(Tail(ops),
                            [q \in DOMAIN level |-> IF q \in qs THEN at ELSE level[q]],
                            MaxOf(best, at))

\* Circuit::depth: length of the longest chain of operations sharing qubits
depth(c) == DepthFrom(c.operations, [q \in 0..(c.num_qubits - 1) |-> 0], 0)

CliffordTTypes ==
    {"H", "S", "SDG", "T", "TDG", "X", "Y", "Z", "CX", "MEASURE", "RESET", "BARRIER"}

is_clifford_t(c) == TypesOf(c) \subseteq CliffordTTypes

CountType(c, t) == Cardinality({i \in 1..Len(c.operations) : c.operations[i].type = t})

-----------------------------------------------------------------------------
(* Decompose pass *)

CCXDecomposition(a, b, t) ==
    << Gate("H", <<t>>), Gate("CX", <<b, t>>), Gate("TDG", <<t>>), Gate("CX", <<a, t>>),
       Gate("T", <<t>>), Gate("CX", <<b, t>>), Gate("TDG", <<t>>), Gate("CX", <<a, t>>),
       Gate("T", <<b>>), Gate("T", <<t>>), Gate("H", <<t>>), Gate("CX", <<a, b>>),
       Gate("T", <<a>>), Gate("TDG", <<b>>), Gate("CX", <<a, b>>) >>

RzOp(q, th) == Operation("RZ", <<q>>, <<th>>, <<>>, NoPauli)

\* a decomposition that writes RY in terms of RX, which is itself decomposed
DecomposeOpRyViaRx(op, keep_ccx) ==
    LET q == op.qubits IN
    CASE op.type = "CCX" ->
            IF keep_ccx THEN <<op>> ELSE CCXDecomposition(q[1], q[2], q[3])
      [] op.type = "SWAP" ->
            <<Gate("CX", <<q[1], q[2]>>), Gate("CX", <<q[2], q[1]>>), Gate("CX", <<q[1], q[2]>>)>>
      [] op.type = "CZ" ->
            <<Gate("H", <<q[2]>>), Gate("CX", <<q[1], q[2]>>), Gate("H", <<q[2]>>)>>
      [] op.type = "RX" ->
            <<Gate("H", q), RzOp(q[1], op.params[1]), Gate("H", q)>>
      [] op.type = "RY" ->
            <<Gate("S", q), Operation("RX", q, op.params, <<>>, NoPauli), Gate("SDG", q)>>
      [] op.type = "SX" -> <<Gate("H", q), Gate("S", q), Gate("H", q)>>
      [] op.type = "SXDG" -> <<Gate("H", q), Gate("SDG", q), Gate("H", q)>>
      [] OTHER -> <<op>>

DecomposeOp(op, keep_ccx) ==
    LET q == op.qubits IN
    CASE op.type = "CCX" ->
            IF keep_ccx THEN <<op>> ELSE CCXDecomposition(q[1], q[2], q[3])
      [] op.type = "SWAP" ->
            <<Gate("CX", <<q[1], q[2]>>), Gate("CX", <<q[2], q[1]>>), Gate("CX", <<q[1], q[2]>>)>>
      [] op.type = "CZ" ->
            <<Gate("H", <<q[2]>>), Gate("CX", <<q[1], q[2]>>), Gate("H", <<q[2]>>)>>
      [] op.type = "RX" ->
            <<Gate("H", q), RzOp(q[1], op.params[1]), Gate("H", q)>>
      [] op.type = "RY" ->
            <<Gate("S", q), Gate("H", q), RzOp(q[1], op.params[1]), Gate("H", q),
              Gate("SDG", q)>>
      [] op.type = "SX" -> <<Gate("H", q), Gate("S", q), Gate("H", q)>>
      [] op.type = "SXDG" -> <<Gate("H", q), Gate("SDG", q), Gate("H", q)>>
      [] OTHER -> <<op>>

DecomposeOps(ops, keep_ccx) ==
    Flatten([i \in 1..Len(ops) |-> DecomposeOp(ops[i], keep_ccx)])

-----------------------------------------------------------------------------
(* Remove-trivial-RZ pass; angles in units of pi/8 *)

\* theta mod 2 pi, brought into [-pi, pi)
NormAngle(th) == ((th + 8) % 16) - 8

IsTrivialAngle(th) == NormAngle(th) % 2 = 0

TrivialFragment(q, th) ==
    LET k == NormAngle(th) \div 2 IN
    CASE k = 0 -> <<>>
      [] k = 1 -> <<Gate("T", <<q>>)>>
      [] k = -1 -> <<Gate("TDG", <<q>>)>>
      [] k = 2 -> <<Gate("S", <<q>>)>>
      [] k = -2 -> <<Gate("SDG", <<q>>)>>
      [] k = 3 -> <<Gate("S", <<q>>), Gate("T", <<q>>)>>
      [] k = -3 -> <<Gate("SDG", <<q>>), Gate("TDG", <<q>>)>>
      [] OTHER -> <<Gate("Z", <<q>>)>>

RemoveTrivialRzOp(op) ==
    IF op.type = "RZ" /\ IsTrivialAngle(op.params[1])
    THEN TrivialFragment(op.qubits[1], op.params[1])
    ELSE <<op>>

RemoveTrivialRzOps(ops) == Flatten([i \in 1..Len(ops) |-> RemoveTrivialRzOp(ops[i])])

-----------------------------------------------------------------------------
(* RZ synthesis adapter and the grid-synthesis collaborator *)

\* default tolerance per angle: |theta| * DEFAULT_EPSILON_MULTIPLIER
DEFAULT_EPSILON_MULTIPLIER == 1

\* the collaborator: a word over {H, T} whose length grows as epsilon shrinks
TCountFor(eps) == IF eps <= 0 THEN 3 ELSE IF eps = 1 THEN 2 ELSE 1

RECURSIVE Repeat(_, _)
Repeat(w, n) == IF n = 0 THEN <<>> ELSE w \o Repeat(w, n - 1)

synthesize(q, th, eps) == Repeat(<<Gate("H", <<q>>), Gate("T", <<q>>)>>, TCountFor(eps))

\* epsilon: <<>> for the per-angle default, <<e>> for a uniform tolerance
SynthesizeRzOp(op, epsilon) ==
    IF op.type = "RZ"
    THEN synthesize(op.qubits[1], op.params[1],
                    IF epsilon = <<>>
                    THEN Abs(op.params[1]) * DEFAULT_EPSILON_MULTIPLIER
                    ELSE epsilon[1])
    ELSE <<op>>

SynthesizeRzOps(ops, epsilon) ==
    Flatten([i \in 1..Len(ops) |-> SynthesizeRzOp(ops[i], epsilon)])


-----------------------------------------------------------------------------
(* Gate fusion pass *)

SelfInverseTypes == {"H", "X", "Y", "Z", "CX"}

\* rule 1: a self-inverse pair on identical operands
Cancels(a, b) ==
    /\ a.qubits = b.qubits
    /\ \/ a.type = b.type /\ a.type \in SelfInverseTypes
       \/ {a.type, b.type} = {"S", "SDG"}
       \/ {a.type, b.type} = {"T", "TDG"}

\* the replacement of two operations brought together, or <<a, b>> when no rule
\* applies (rules 1 to 3, tried in order)
FusePair(a, b) ==
    IF Cancels(a, b) THEN <<>>
    ELSE IF a.qubits = b.qubits /\ a.type = "RZ" /\ b.type = "RZ"
         THEN RemoveTrivialRzOp(RzOp(a.qubits[1], a.params[1] + b.params[1]))
    ELSE IF a.qubits = b.qubits /\ a.type = "S" /\ b.type = "S" THEN <<Gate("Z", a.qubits)>>
    ELSE IF a.qubits = b.qubits /\ a.type = "T" /\ b.type = "T" THEN <<Gate("S", a.qubits)>>
    ELSE IF a.qubits = b.qubits /\ {a.type, b.type} = {"T", "SDG"}
         THEN <<Gate("TDG", a.qubits)>>
    ELSE <<a, b>>

\* rule 4: nothing moves across a barrier or a measurement
Fence(op) == op.type \in {"BARRIER", "MEASURE"}

RECURSIVE FusionPartnerFrom(_, _, _)
\* the next operation at or after j on a qubit of ops[i], reached across
\* operations on disjoint qubits only; 0 when there is none or a fence is met
FusionPartnerFrom(ops, i, j) ==
    IF j > Len(ops) \/ Fence(ops[i]) \/ OpQubits(ops[i]) = {} THEN 0
    ELSE IF Fence(ops[j]) THEN 0
    ELSE IF OpQubits(ops[j]) \cap OpQubits(ops[i]) # {} THEN j
    ELSE FusionPartnerFrom(ops, i, j + 1)

FusionPartner(ops, i) == FusionPartnerFrom(ops, i, i + 1)

\* a rule applies to ops[i] and its partner
RuleAt(ops, i) ==
    LET j == FusionPartner(ops, i) IN
        j # 0 /\ FusePair(ops[i], ops[j]) # <<ops[i], ops[j]>>

\* ops without its j-th element
Without(ops, j) == SubSeq(ops, 1, j - 1) \o SubSeq(ops, j + 1, Len(ops))

\* a traversal that tries the rules on the first operation only
FusionSweepHeadOnly(ops) ==
    IF Len(ops) >= 2 /\ RuleAt(ops, 1)
    THEN FusePair(ops[1], ops[FusionPartner(ops, 1)])
            \o Without(Tail(ops), FusionPartner(ops, 1) - 1)
    ELSE ops

RECURSIVE FusionSweep(_)
\* one left-to-right traversal of the circuit
FusionSweep(ops) ==
    IF Len(ops) < 2 THEN ops
    ELSE IF RuleAt(ops, 1)
         THEN FusePair(ops[1], ops[FusionPartner(ops, 1)])
                 \o FusionSweep(Without(Tail(ops), FusionPartner(ops, 1) - 1))
         ELSE <<ops[1]>> \o FusionSweep(Tail(ops))

MAX_FUSION_ITERATIONS == 64

\* the iteration cap: min(|ops|, 64)
FusionCap(ops) == IF Len(ops) < MAX_FUSION_ITERATIONS THEN Len(ops) ELSE MAX_FUSION_ITERATIONS

RECURSIVE FusionLoop(_, _, _)
\* the fixed-point loop: the operations it ends with, the traversals it made,
\* and whether it ended on a traversal that changed nothing
FusionLoop(ops, cap, made) ==
    IF made >= cap THEN [ops |-> ops, iterations |-> made, converged |-> FALSE]
    ELSE LET next == FusionSweep(ops) IN
         IF next = ops THEN [ops |-> ops, iterations |-> made + 1, converged |-> TRUE]
         ELSE FusionLoop(next, cap, made + 1)

GateFusionOps(ops) == FusionLoop(ops, FusionCap(ops), 0).ops

-----------------------------------------------------------------------------
(* Remove-Pauli pass *)

PauliGateTypes == {"X", "Y", "Z"}

RECURSIVE StripLeading(_)
StripLeading(ops) ==
    IF ops # <<>> /\ Head(ops).type \in PauliGateTypes THEN StripLeading(Tail(ops)) ELSE ops

RECURSIVE StripTrailing(_)
StripTrailing(ops) ==
    IF ops = <<>> THEN <<>>
    ELSE LET last == ops[Len(ops)]
             front == SubSeq(ops, 1, Len(ops) - 1)
         IN  IF last.type \in PauliGateTypes THEN StripTrailing(front)
             ELSE IF last.type = "MEASURE" THEN Append(StripTrailing(front), last)
             ELSE ops

RemovePauliOps(ops) == StripTrailing(StripLeading(ops))

-----------------------------------------------------------------------------
(* PBC conversion pass: Pauli conjugation through the Clifford frame *)

PX(l) == l \in {"X", "Y"}
PZ(l) == l \in {"Z", "Y"}
Letter(x, z) == IF x /\ z THEN "Y" ELSE IF x THEN "X" ELSE IF z THEN "Z" ELSE "I"

ZOn(n, q) == [negative |-> FALSE, ops |-> [i \in 1..n |-> IF i = q + 1 THEN "Z" ELSE "I"]]

Negate(P) == [P EXCEPT !.negative = ~@]

\* g P g^dagger for the self-inverse Clifford gates H, X, Y and CX
ConjugateBy(g, P) ==
    LET a == g.qubits[1] + 1
        la == P.ops[a]
    IN  CASE g.type = "H" ->
                [negative |-> (P.negative # (la = "Y")),
                 ops |-> [P.ops EXCEPT ![a] = Letter(PZ(la), PX(la))]]
          [] g.type = "X" -> [P EXCEPT !.negative = (@ # PZ(la))]
          [] g.type = "Y" -> [P EXCEPT !.negative = (@ # (PX(la) # PZ(la)))]
          [] g.type = "CX" ->
                LET b == g.qubits[2] + 1
                    lb == P.ops[b]
                    flip == PX(la) /\ PZ(lb) /\ (PX(lb) = PZ(la))
                IN  [negative |-> (P.negative # flip),
                     ops |-> [P.ops EXCEPT ![a] = Letter(PX(la), PZ(la) # PZ(lb)),
                                           ![b] = Letter(PX(lb) # PX(la), PZ(lb))]]
          [] OTHER -> P

\* C^dagger P C for the frame C = frame[k] ... frame[1]
RECURSIVE ThroughFrame(_, _)
ThroughFrame(frame, P) ==
    IF frame = <<>> THEN P
    ELSE ThroughFrame(SubSeq(frame, 1, Len(frame) - 1), ConjugateBy(frame[Len(frame)], P))

PauliOperation(type, bits, P) == Operation(type, <<>>, <<>>, bits, P)

FrameTypes(keep_cx) == IF keep_cx THEN {"H", "X", "Y"} ELSE {"H", "X", "Y", "CX"}

RECURSIVE PbcScan(_, _, _, _)
PbcScan(ops, frame, n, keep_cx) ==
    IF ops = <<>> THEN <<>>
    ELSE LET op == Head(ops)
             rest == Tail(ops)
             P == ThroughFrame(frame, ZOn(n, op.qubits[1]))
         IN  CASE op.type \in FrameTypes(keep_cx) -> PbcScan(rest, Append(frame, op), n, keep_cx)
               [] op.type = "T" ->
                    <<PauliOperation("T_PAULI", <<>>, P)>> \o PbcScan(rest, frame, n, keep_cx)
               [] op.type = "TDG" ->
                    <<PauliOperation("T_PAULI", <<>>, Negate(P))>> \o PbcScan(rest, frame, n, keep_cx)
               [] op.type = "S" ->
                    <<PauliOperation("S_PAULI", <<>>, P)>> \o PbcScan(rest, frame, n, keep_cx)
               [] op.type = "SDG" ->
                    <<PauliOperation("S_PAULI", <<>>, Negate(P))>> \o PbcScan(rest, frame, n, keep_cx)
               [] op.type = "Z" ->
                    <<PauliOperation("Z_PAULI", <<>>, P)>> \o PbcScan(rest, frame, n, keep_cx)
               [] op.type = "MEASURE" ->
                    <<PauliOperation("M_PAULI", op.bits, P)>> \o PbcScan(rest, frame, n, keep_cx)
               [] op.type = "RESET" -> PbcScan(rest, frame, n, keep_cx)
               [] OTHER -> <<op>> \o PbcScan(rest, frame, n, keep_cx)

PbcOps(c, keep_cx) == PbcScan(c.operations, <<>>, c.num_qubits, keep_cx)

-----------------------------------------------------------------------------
(* PauliOp algebra: commutes_with and multiply *)

\* the indices at which both strings are non-identity
BothNonIdentity(P, Q) == {i \in 1..Len(P.ops) : P.ops[i] # "I" /\ Q.ops[i] # "I"}

\* a commutes_with that counts every index at which both strings act
commutes_with_overlap(P, Q) == Cardinality(BothNonIdentity(P, Q)) % 2 = 0

\* PauliOp::commutes_with: the number of indices at which the two strings are
\* both non-identity and distinct is even
commutes_with(P, Q) ==
    Cardinality({i \in BothNonIdentity(P, Q) : P.ops[i] # Q.ops[i]}) % 2 = 0

\* the power of i picked up by the product of two single-qubit Paulis:
\* XY = iZ, YZ = iX, ZX = iY and the reversed products carry -i
PhaseOf(a, b) ==
    IF a = "I" \/ b = "I" \/ a = b THEN 0
    ELSE IF <<a, b>> \in {<<"X", "Y">>, <<"Y", "Z">>, <<"Z", "X">>} THEN 1
    ELSE 3

RECURSIVE PhaseSum(_, _, _)
PhaseSum(P, Q, i) ==
    IF i = 0 THEN 0 ELSE (PhaseOf(P.ops[i], Q.ops[i]) + PhaseSum(P, Q, i - 1)) % 4

\* PauliOp::multiply: componentwise product; phase is the overall power of i
\* (0, 1, 2, 3 for +1, +i, -1, -i), the signs of both factors included
multiply(P, Q) ==
    [phase |-> (PhaseSum(P, Q, Len(P.ops))
                + (IF P.negative THEN 2 ELSE 0) + (IF Q.negative THEN 2 ELSE 0)) % 4,
     op |-> [negative |-> FALSE,
             ops |-> [i \in 1..Len(P.ops) |->
                         Letter(PX(P.ops[i]) # PX(Q.ops[i]), PZ(P.ops[i]) # PZ(Q.ops[i]))]]]

-----------------------------------------------------------------------------
(* T-fuse pass *)

PauliRotations == {"T_PAULI", "S_PAULI", "Z_PAULI"}

\* b is a rotation of a's kind about a's Pauli string, up to sign
SameAxis(a, b) ==
    /\ a.type \in PauliRotations
    /\ b.type = a.type
    /\ b.pauli \in {a.pauli, Negate(a.pauli)}

\* a pair rule that steps the wrong way for two S rotations: S.S gives T
TfusePairHalving(a, b) ==
    IF ~SameAxis(a, b) THEN <<a, b>>
    ELSE IF a.type = "T_PAULI"
         THEN IF a.pauli = b.pauli THEN <<PauliOperation("S_PAULI", <<>>, a.pauli)>> ELSE <<>>
    ELSE IF a.type = "S_PAULI"
         THEN IF a.pauli = b.pauli THEN <<PauliOperation("T_PAULI", <<>>, a.pauli)>> ELSE <<>>
    ELSE <<>>

\* a pair rule that compares the Pauli letters and forgets the signs
TfusePairIgnoringSign(a, b) ==
    IF ~SameAxis(a, b) THEN <<a, b>>
    ELSE IF a.type = "T_PAULI" THEN <<PauliOperation("S_PAULI", <<>>, a.pauli)>>
    ELSE IF a.type = "S_PAULI" THEN <<PauliOperation("Z_PAULI", <<>>, a.pauli)>>
    ELSE <<>>

\* the replacement of two rotations brought together, or <<a, b>> when no rule
\* applies: T.T = S and S.S = Z about the same signed string, opposite signs
\* cancel, Z.Z = I
TfusePair(a, b) ==
    IF ~SameAxis(a, b) THEN <<a, b>>
    ELSE IF a.type = "T_PAULI"
         THEN IF a.pauli = b.pauli THEN <<PauliOperation("S_PAULI", <<>>, a.pauli)>> ELSE <<>>
    ELSE IF a.type = "S_PAULI"
         THEN IF a.pauli = b.pauli THEN <<PauliOperation("Z_PAULI", <<>>, a.pauli)>> ELSE <<>>
    ELSE <<>>

\* a may move to the right past b: b is a rotation about a commuting string
MovesPast(a, b) == b.type \in PauliRotations /\ commutes_with(a.pauli, b.pauli)

RECURSIVE TfusePartnerFrom(_, _, _)
\* the first operation at or after j that a = ops[i] combines with, reached by
\* moving a past commuting rotations only; 0 when something blocks the way
TfusePartnerFrom(ops, i, j) ==
    IF j > Len(ops) \/ ops[i].type \notin PauliRotations THEN 0
    ELSE IF SameAxis(ops[i], ops[j]) THEN j
    ELSE IF MovesPast(ops[i], ops[j]) THEN TfusePartnerFrom(ops, i, j + 1)
    ELSE 0

TfusePartner(ops, i) == TfusePartnerFrom(ops, i, i + 1)

RECURSIVE TfuseSweep(_)
\* one left-to-right traversal
TfuseSweep(ops) ==
    IF Len(ops) < 2 THEN ops
    ELSE LET j == TfusePartner(ops, 1) IN
         IF j = 0
         THEN <<ops[1]>> \o TfuseSweep(Tail(ops))
         ELSE TfusePair(ops[1], ops[j]) \o TfuseSweep(Without(Tail(ops), j - 1))

RECURSIVE TfuseIterate(_, _)
TfuseIterate(ops, left) ==
    IF left = 0 THEN ops
    ELSE LET next == TfuseSweep(ops) IN
         IF next = ops THEN ops ELSE TfuseIterate(next, left - 1)

\* iterate to a fixed point, at most once per T rotation of the input
TfuseOps(c) == TfuseIterate(c.operations, CountType(c, "T_PAULI"))


-----------------------------------------------------------------------------
(* PassType, pass_type_to_string, PassSequences *)

PassType_DECOMPOSE == 0
PassType_REMOVE_TRIVIAL_RZ == 1
PassType_GATE_FUSION == 2
PassType_REMOVE_PAULI == 3
PassType_TO_PBC == 4
PassType_CLIFFORD_REDUCTION == 5
PassType_SYNTHESIZE_RZ == 6
PassType_TFUSE == 7

PassTypes == PassType_DECOMPOSE..PassType_TFUSE

\* a PassType value that names no enumerator
PassType_OutOfRange == 8

PassKinds == PassTypes \cup {PassType_OutOfRange}

pass_type_to_string(type) ==
    CASE type = PassType_DECOMPOSE -> "DECOMPOSE"
      [] type = PassType_REMOVE_TRIVIAL_RZ -> "REMOVE_TRIVIAL_RZ"
      [] type = PassType_GATE_FUSION -> "GATE_FUSION"
      [] type = PassType_REMOVE_PAULI -> "REMOVE_PAULI"
      [] type = PassType_TO_PBC -> "TO_PBC"
      [] type = PassType_CLIFFORD_REDUCTION -> "CLIFFORD_REDUCTION"
      [] type = PassType_SYNTHESIZE_RZ -> "SYNTHESIZE_RZ"
      [] type = PassType_TFUSE -> "TFUSE"
      [] OTHER -> "UNKNOWN"

\* PassSequences (workflow header)
BASIC_PREPROCESSING == <<PassType_DECOMPOSE, PassType_REMOVE_TRIVIAL_RZ>>

FULL_PREPROCESSING ==
    <<PassType_DECOMPOSE, PassType_REMOVE_TRIVIAL_RZ, PassType_SYNTHESIZE_RZ>>

TO_CLIFFORD_T ==
    <<PassType_DECOMPOSE, PassType_REMOVE_TRIVIAL_RZ, PassType_SYNTHESIZE_RZ,
      PassType_GATE_FUSION>>

TO_PBC ==
    <<PassType_DECOMPOSE, PassType_REMOVE_TRIVIAL_RZ, PassType_SYNTHESIZE_RZ,
      PassType_TO_PBC>>

\* a TO_PBC_OPTIMIZED that forgets the RZ synthesis
TO_PBC_OPTIMIZED_NoSynthesis ==
    <<PassType_DECOMPOSE, PassType_REMOVE_TRIVIAL_RZ, PassType_TO_PBC, PassType_TFUSE>>

TO_PBC_OPTIMIZED ==
    <<PassType_DECOMPOSE, PassType_REMOVE_TRIVIAL_RZ, PassType_SYNTHESIZE_RZ,
      PassType_TO_PBC, PassType_TFUSE>>

TO_CLIFFORD_REDUCTION ==
    <<PassType_DECOMPOSE, PassType_REMOVE_TRIVIAL_RZ, PassType_SYNTHESIZE_RZ,
      PassType_CLIFFORD_REDUCTION>>

T_OPTIMIZATION_ONLY == <<PassType_TFUSE>>

CLEANUP == <<PassType_GATE_FUSION, PassType_REMOVE_TRIVIAL_RZ>>

\* PassSequences (transpiler_passes.hpp, the names the bindings use)
TO_CLIFFORD_T_RZ == <<PassType_DECOMPOSE, PassType_REMOVE_TRIVIAL_RZ>>

TO_PBC_BASIC ==
    <<PassType_DECOMPOSE, PassType_REMOVE_TRIVIAL_RZ, PassType_SYNTHESIZE_RZ,
      PassType_TO_PBC>>

CLIFFORD_REDUCTION ==
    <<PassType_DECOMPOSE, PassType_REMOVE_TRIVIAL_RZ, PassType_SYNTHESIZE_RZ,
      PassType_CLIFFORD_REDUCTION>>

POST_SYNTHESIS_CLEANUP == <<PassType_GATE_FUSION, PassType_REMOVE_TRIVIAL_RZ>>

SequenceNames ==
    {"BASIC_PREPROCESSING", "FULL_PREPROCESSING", "TO_CLIFFORD_T", "TO_PBC", "TO_PBC_OPTIMIZED",
     "TO_CLIFFORD_REDUCTION", "T_OPTIMIZATION_ONLY", "CLEANUP", "TO_CLIFFORD_T_RZ",
     "TO_PBC_BASIC", "CLIFFORD_REDUCTION", "POST_SYNTHESIS_CLEANUP"}

\* PassSequences::name
PassSequences(name) ==
    CASE name = "BASIC_PREPROCESSING" -> BASIC_PREPROCESSING
      [] name = "FULL_PREPROCESSING" -> FULL_PREPROCESSING
      [] name = "TO_CLIFFORD_T" -> TO_CLIFFORD_T
      [] name = "TO_PBC" -> TO_PBC
      [] name = "TO_PBC_OPTIMIZED" -> TO_PBC_OPTIMIZED
      [] name = "TO_CLIFFORD_REDUCTION" -> TO_CLIFFORD_REDUCTION
      [] name = "T_OPTIMIZATION_ONLY" -> T_OPTIMIZATION_ONLY
      [] name = "CLEANUP" -> CLEANUP
      [] name = "TO_CLIFFORD_T_RZ" -> TO_CLIFFORD_T_RZ
      [] name = "TO_PBC_BASIC" -> TO_PBC_BASIC
      [] name = "CLIFFORD_REDUCTION" -> CLIFFORD_REDUCTION
      [] name = "POST_SYNTHESIS_CLEANUP" -> POST_SYNTHESIS_CLEANUP

-----------------------------------------------------------------------------
(* Transpiler::create_pass and Pass::run *)

\* a pass object: its class and the constructor arguments it was given
\* (epsilon: <<>> when the default constructor was used)
PassObject(cls, flag, epsilon) == [cls |-> cls, flag |-> flag, epsilon |-> epsilon]

\* a create_pass that takes only a positive epsilon_override as an override
create_pass_positive_only(type, cfg) ==
    CASE type = PassType_DECOMPOSE -> <<PassObject("DecomposePass", cfg.keep_ccx, <<>>)>>
      [] type = PassType_REMOVE_TRIVIAL_RZ -> <<PassObject("RemoveTrivialRzPass", FALSE, <<>>)>>
      [] type = PassType_GATE_FUSION -> <<PassObject("GateFusionPass", FALSE, <<>>)>>
      [] type = PassType_REMOVE_PAULI -> <<PassObject("RemovePauliPass", FALSE, <<>>)>>
      [] type = PassType_TO_PBC -> <<PassObject("PbcPass", cfg.keep_cx, <<>>)>>
      [] type = PassType_CLIFFORD_REDUCTION -> <<PassObject("CRPass", FALSE, <<>>)>>
      [] type = PassType_SYNTHESIZE_RZ ->
            IF gridsynth
            THEN IF cfg.epsilon_override > 0
                 THEN <<PassObject("SynthesizeRzPass", FALSE, <<cfg.epsilon_override>>)>>
                 ELSE <<PassObject("SynthesizeRzPass", FALSE, <<>>)>>
            ELSE <<>>
      [] type = PassType_TFUSE -> <<PassObject("TfusePass", FALSE, <<>>)>>
      [] OTHER -> <<>>

\* a create_pass that hands the PBC pass the keep_ccx flag
create_pass_pbc_keep_ccx(type, cfg) ==
    CASE type = PassType_DECOMPOSE -> <<PassObject("DecomposePass", cfg.keep_ccx, <<>>)>>
      [] type = PassType_REMOVE_TRIVIAL_RZ -> <<PassObject("RemoveTrivialRzPass", FALSE, <<>>)>>
      [] type = PassType_GATE_FUSION -> <<PassObject("GateFusionPass", FALSE, <<>>)>>
      [] type = PassType_REMOVE_PAULI -> <<PassObject("RemovePauliPass", FALSE, <<>>)>>
      [] type = PassType_TO_PBC -> <<PassObject("PbcPass", cfg.keep_ccx, <<>>)>>
      [] type = PassType_CLIFFORD_REDUCTION -> <<PassObject("CRPass", FALSE, <<>>)>>
      [] type = PassType_SYNTHESIZE_RZ ->
            IF gridsynth
            THEN IF cfg.epsilon_override >= 0
                 THEN <<PassObject("SynthesizeRzPass", FALSE, <<cfg.epsilon_override>>)>>
                 ELSE <<PassObject("SynthesizeRzPass", FALSE, <<>>)>>
            ELSE <<>>
      [] type = PassType_TFUSE -> <<PassObject("TfusePass", FALSE, <<>>)>>
      [] OTHER -> <<>>

\* <<>> is nullptr, <<p>> a pass
\* a factory built as if the grid-synthesis backend were always compiled in
create_pass_synthesis_without_backend(type, cfg) ==
    CASE type = PassType_DECOMPOSE -> <<PassObject("DecomposePass", cfg.keep_ccx, <<>>)>>
      [] type = PassType_REMOVE_TRIVIAL_RZ -> <<PassObject("RemoveTrivialRzPass", FALSE, <<>>)>>
      [] type = PassType_GATE_FUSION -> <<PassObject("GateFusionPass", FALSE, <<>>)>>
      [] type = PassType_REMOVE_PAULI -> <<PassObject("RemovePauliPass", FALSE, <<>>)>>
      [] type = PassType_TO_PBC -> <<PassObject("PbcPass", cfg.keep_cx, <<>>)>>
      [] type = PassType_CLIFFORD_REDUCTION -> <<PassObject("CRPass", FALSE, <<>>)>>
      [] type = PassType_SYNTHESIZE_RZ ->
            IF cfg.epsilon_override >= 0
            THEN <<PassObject("SynthesizeRzPass", FALSE, <<cfg.epsilon_override>>)>>
            ELSE <<PassObject("SynthesizeRzPass", FALSE, <<>>)>>
      [] type = PassType_TFUSE -> <<PassObject("TfusePass", FALSE, <<>>)>>
      [] OTHER -> <<>>

\* a factory that hands the decomposition pass the keep_cx flag
create_pass_decompose_keep_cx(type, cfg) ==
    CASE type = PassType_DECOMPOSE -> <<PassObject("DecomposePass", cfg.keep_cx, <<>>)>>
      [] type = PassType_REMOVE_TRIVIAL_RZ -> <<PassObject("RemoveTrivialRzPass", FALSE, <<>>)>>
      [] type = PassType_GATE_FUSION -> <<PassObject("GateFusionPass", FALSE, <<>>)>>
      [] type = PassType_REMOVE_PAULI -> <<PassObject("RemovePauliPass", FALSE, <<>>)>>
      [] type = PassType_TO_PBC -> <<PassObject("PbcPass", cfg.keep_cx, <<>>)>>
      [] type = PassType_CLIFFORD_REDUCTION -> <<PassObject("CRPass", FALSE, <<>>)>>
      [] type = PassType_SYNTHESIZE_RZ ->
            IF gridsynth
            THEN IF cfg.epsilon_override >= 0
                 THEN <<PassObject("SynthesizeRzPass", FALSE, <<cfg.epsilon_override>>)>>
                 ELSE <<PassObject("SynthesizeRzPass", FALSE, <<>>)>>
            ELSE <<>>
      [] type = PassType_TFUSE -> <<PassObject("TfusePass", FALSE, <<>>)>>
      [] OTHER -> <<>>

\* a factory that takes the quiet mode as leave to drop the synthesis pass
create_pass_silent_drops_synthesis(type, cfg) ==
    CASE type = PassType_DECOMPOSE -> <<PassObject("DecomposePass", cfg.keep_ccx, <<>>)>>
      [] type = PassType_REMOVE_TRIVIAL_RZ -> <<PassObject("RemoveTrivialRzPass", FALSE, <<>>)>>
      [] type = PassType_GATE_FUSION -> <<PassObject("GateFusionPass", FALSE, <<>>)>>
      [] type = PassType_REMOVE_PAULI -> <<PassObject("RemovePauliPass", FALSE, <<>>)>>
      [] type = PassType_TO_PBC -> <<PassObject("PbcPass", cfg.keep_cx, <<>>)>>
      [] type = PassType_CLIFFORD_REDUCTION -> <<PassObject("CRPass", FALSE, <<>>)>>
      [] type = PassType_SYNTHESIZE_RZ ->
            IF gridsynth /\ ~cfg.silent
            THEN IF cfg.epsilon_override >= 0
                 THEN <<PassObject("SynthesizeRzPass", FALSE, <<cfg.epsilon_override>>)>>
                 ELSE <<PassObject("SynthesizeRzPass", FALSE, <<>>)>>
            ELSE <<>>
      [] type = PassType_TFUSE -> <<PassObject("TfusePass", FALSE, <<>>)>>
      [] OTHER -> <<>>

create_pass(type, cfg) ==
    CASE type = PassType_DECOMPOSE -> <<PassObject("DecomposePass", cfg.keep_ccx, <<>>)>>
      [] type = PassType_REMOVE_TRIVIAL_RZ -> <<PassObject("RemoveTrivialRzPass", FALSE, <<>>)>>
      [] type = PassType_GATE_FUSION -> <<PassObject("GateFusionPass", FALSE, <<>>)>>
      [] type = PassType_REMOVE_PAULI -> <<PassObject("RemovePauliPass", FALSE, <<>>)>>
      [] type = PassType_TO_PBC -> <<PassObject("PbcPass", cfg.keep_cx, <<>>)>>
      [] type = PassType_CLIFFORD_REDUCTION -> <<PassObject("CRPass", FALSE, <<>>)>>
      [] type = PassType_SYNTHESIZE_RZ ->
            IF gridsynth
            THEN IF cfg.epsilon_override >= 0
                 THEN <<PassObject("SynthesizeRzPass", FALSE, <<cfg.epsilon_override>>)>>
                 ELSE <<PassObject("SynthesizeRzPass", FALSE, <<>>)>>
            ELSE <<>>
      [] type = PassType_TFUSE -> <<PassObject("TfusePass", FALSE, <<>>)>>
      [] OTHER -> <<>>

\* the operation vector a pass leaves behind
PassResult(p, c) ==
    CASE p.cls = "DecomposePass" -> DecomposeOps(c.operations, p.flag)
      [] p.cls = "RemoveTrivialRzPass" -> RemoveTrivialRzOps(c.operations)
      [] p.cls = "GateFusionPass" -> GateFusionOps(c.operations)
      [] p.cls = "RemovePauliPass" -> RemovePauliOps(c.operations)
      [] p.cls = "PbcPass" -> PbcOps(c, p.flag)
      [] p.cls = "SynthesizeRzPass" -> SynthesizeRzOps(c.operations, p.epsilon)
      [] p.cls = "TfusePass" -> TfuseOps(c)
      [] OTHER -> c.operations

\* a pass fails hard when its input invariant is not met
PassThrows(p, c) == p.cls = "CRPass" /\ ~is_clifford_t(c)

\* a run that rebuilds the circuit and sizes the classical register by the
\* MEASURE operations that are left
RunRecountingBits(p, c) ==
    LET ops == PassResult(p, c)
        after == [c EXCEPT !.operations = ops,
                           !.num_cbits = Cardinality({i \in 1..Len(ops) : ops[i].type = "MEASURE"})]
    IN  [circuit |-> after, modified |-> (after # c)]

\* Pass::run: the circuit after the run and the modified flag
Run(p, c) ==
    LET after == [c EXCEPT !.operations = PassResult(p, c)]
    IN  [circuit |-> after, modified |-> (after # c)]


-----------------------------------------------------------------------------
(* Transpiler::print_table_header, print_pass_stats, final statistics *)

Row(kind, name, modified, before, after, d) ==
    [kind |-> kind, name |-> name, modified |-> modified, before |-> before,
     after |-> after, depth |-> d]

RECURSIVE SumCounts(_)
SumCounts(f) ==
    IF DOMAIN f = {} THEN 0
    ELSE LET k == CHOOSE x \in DOMAIN f : TRUE
         IN  f[k] + SumCounts([x \in DOMAIN f \ {k} |-> f[x]])

print_table_header == <<Row("header", "Pass", FALSE, 0, 0, 0)>>

\* statistics that take "gates before" from the circuit after the run
print_pass_stats_after_only(pass_name, before, after, modified) ==
    LET after_total == SumCounts(count_ops(after))
    IN  <<Row("pass", pass_name, modified, after_total, after_total, depth(after))>>

print_pass_stats(pass_name, before, after, modified) ==
    LET before_total == SumCounts(count_ops(before))
        after_total == SumCounts(count_ops(after))
    IN  <<Row("pass", pass_name, modified, before_total, after_total, depth(after))>>

\* "=== Final Statistics ===" followed by Circuit::print_stats
print_final_stats(c) ==
    <<Row("final", "Final Statistics", FALSE, 0, SumCounts(count_ops(c)), depth(c))>>

-----------------------------------------------------------------------------
(* Transpiler::execute_passes *)

Warning(type) == "Warning: Unknown pass type: " \o pass_type_to_string(type)

\* entry: ownership of the circuit moves in; the header is printed unless silent
Enter(c, ps, cfg, cl) ==
    /\ pc = "idle"
    /\ pc' = "loop"
    /\ passes' = ps
    /\ config' = cfg
    /\ idx' = 1
    /\ work' = <<c>>
    /\ cout' = IF ~cfg.silent THEN print_table_header ELSE <<>>
    /\ cerr' = <<>>
    /\ created' = <<>>
    /\ runlog' = <<>>
    /\ ret' = <<>>
    /\ call' = cl
    /\ raised' = ""
    /\ UNCHANGED <<circuit, gridsynth>>

InLoop == pc = "loop" /\ idx <= Len(passes)

\* a driver that warns whether or not it was told to be silent
SkipWarnsAlways == TRUE

\* the warning is guarded by !config.silent
SkipWarns == ~config.silent

\* a driver that leaves the loop at an entry it cannot create
SkipBreaks == Len(passes) + 1

\* continue: the loop goes on with the entry after the skipped one
SkipContinue == idx + 1

\* loop body, create_pass returned nullptr: warn unless silent, continue
LoopSkip ==
    /\ InLoop
    /\ create_pass(passes[idx], config) = <<>>
    /\ created' = Append(created, <<>>)
    /\ cerr' = IF SkipWarns THEN Append(cerr, Warning(passes[idx])) ELSE cerr
    /\ idx' = SkipContinue
    /\ UNCHANGED <<circuit, raised, pc, passes, config, work, cout, runlog, ret, call,
                   gridsynth>>

RunEntry(i, type, before, after, threw) ==
    [index |-> i, type |-> type, before |-> before, after |-> after, threw |-> threw]

\* a pass that runs on the caller's original circuit instead of the owned one
RunTargetOriginal == circuit

\* *circuit: the circuit the driver owns, as the passes so far left it
RunTarget == work[1]

\* loop body, the pass runs to completion: snapshot, run, row unless silent
LoopRun ==
    /\ InLoop
    /\ create_pass(passes[idx], config) # <<>>
    /\ LET pass == create_pass(passes[idx], config)[1]
           before_copy == RunTarget
           r == Run(pass, RunTarget)
       IN  /\ ~PassThrows(pass, RunTarget)
           /\ created' = Append(created, <<pass>>)
           /\ work' = <<r.circuit>>
           /\ runlog' = Append(runlog, RunEntry(idx, passes[idx], before_copy, r.circuit, FALSE))
           /\ cout' = IF ~config.silent
                      THEN cout \o print_pass_stats(pass_type_to_string(passes[idx]),
                                                    before_copy, r.circuit, r.modified)
                      ELSE cout
    /\ idx' = idx + 1
    /\ UNCHANGED <<circuit, raised, pc, passes, config, cerr, ret, call, gridsynth>>

\* a driver that swallows the exception and goes on with the next entry
LoopThrowSwallowed ==
    /\ InLoop
    /\ create_pass(passes[idx], config) # <<>>
    /\ LET pass == create_pass(passes[idx], config)[1]
       IN  /\ PassThrows(pass, work[1])
           /\ created' = Append(created, <<pass>>)
           /\ runlog' = Append(runlog, RunEntry(idx, passes[idx], work[1], work[1], TRUE))
    /\ idx' = idx + 1
    /\ UNCHANGED <<circuit, raised, pc, passes, config, work, cout, cerr, ret, call,
                   gridsynth>>

\* loop body, the pass's run propagates an exception: nothing catches it, the
\* owned circuit is destroyed while the stack unwinds, the caller sees the exception
LoopThrow ==
    /\ InLoop
    /\ create_pass(passes[idx], config) # <<>>
    /\ LET pass == create_pass(passes[idx], config)[1]
       IN  /\ PassThrows(pass, work[1])
           /\ created' = Append(created, <<pass>>)
           /\ runlog' = Append(runlog, RunEntry(idx, passes[idx], work[1], work[1], TRUE))
    /\ work' = <<>>
    /\ ret' = <<>>
    /\ raised' = "runtime_error"
    /\ pc' = "thrown"
    /\ UNCHANGED <<circuit, passes, config, idx, cout, cerr, call, gridsynth>>

\* after the loop: final statistics unless silent, the circuit is returned
Finish ==
    /\ pc = "loop"
    /\ idx > Len(passes)
    /\ cout' = IF ~config.silent THEN cout \o print_final_stats(work[1]) ELSE cout
    /\ ret' = work
    /\ work' = <<>>
    /\ pc' = "done"
    /\ UNCHANGED <<circuit, raised, passes, config, idx, cerr, created, runlog, call,
                   gridsynth>>

\* a C++ caller hands a pass list and a PassConfig to execute_passes
Transpiler_execute_passes(ps, cfg) ==
    Enter(circuit, ps, cfg, [NoCall EXCEPT !.fn = "execute_passes"])

\* execute_sequence forwards a predefined sequence to execute_passes
\* called with sequence = PassSequences::name
Transpiler_execute_sequence(name, cfg) ==
    Enter(circuit, PassSequences(name), cfg,
          [NoCall EXCEPT !.fn = "execute_sequence", !.sequence = name])

-----------------------------------------------------------------------------
(* Python bindings: apply_transforms and the module-level transforms *)

\* an apply_transforms that puts the cleanup pass in front of the sequence
ApplyTransformsPassesCleanupFirst(to_pbc, to_clifford_reduction, t_pauli_opt, remove_pauli) ==
    LET base == IF t_pauli_opt THEN <<PassType_TFUSE>>
                ELSE IF to_pbc THEN TO_PBC_BASIC
                ELSE IF to_clifford_reduction THEN CLIFFORD_REDUCTION
                ELSE TO_CLIFFORD_T
    IN  IF remove_pauli THEN <<PassType_REMOVE_PAULI>> \o base ELSE base

\* an apply_transforms that asks about the Clifford reduction before the PBC form
ApplyTransformsPassesReductionFirst(to_pbc, to_clifford_reduction, t_pauli_opt, remove_pauli) ==
    LET base == IF t_pauli_opt THEN <<PassType_TFUSE>>
                ELSE IF to_clifford_reduction THEN CLIFFORD_REDUCTION
                ELSE IF to_pbc THEN TO_PBC_BASIC
                ELSE TO_CLIFFORD_T
    IN  IF remove_pauli THEN Append(base, PassType_REMOVE_PAULI) ELSE base

\* the pass list apply_transforms builds
ApplyTransformsPasses(to_pbc, to_clifford_reduction, t_pauli_opt, remove_pauli) ==
    LET base == IF t_pauli_opt THEN <<PassType_TFUSE>>
                ELSE IF to_pbc THEN TO_PBC_BASIC
                ELSE IF to_clifford_reduction THEN CLIFFORD_REDUCTION
                ELSE TO_CLIFFORD_T
    IN  IF remove_pauli THEN Append(base, PassType_REMOVE_PAULI) ELSE base

\* an apply_transforms that moves the caller's circuit into the driver instead of
\* copying it: the caller is left with a moved-from, empty operation vector
apply_transforms_moving_input(fn, epsilon, to_pbc, to_clifford_reduction, keep_cx, t_pauli_opt, remove_pauli, keep_ccx, silent, epsilon_override) ==
    /\ pc = "idle"
    /\ pc' = "loop"
    /\ passes' = ApplyTransformsPasses(to_pbc, to_clifford_reduction, t_pauli_opt, remove_pauli)
    /\ config' = PassConfig(keep_ccx, keep_cx, epsilon_override, silent)
    /\ idx' = 1
    /\ work' = <<circuit>>
    /\ circuit' = [circuit EXCEPT !.operations = <<>>]
    /\ cout' = IF ~silent THEN print_table_header ELSE <<>>
    /\ cerr' = <<>>
    /\ created' = <<>>
    /\ runlog' = <<>>
    /\ ret' = <<>>
    /\ call' = [fn |-> fn, to_pbc |-> to_pbc, to_clifford_reduction |-> to_clifford_reduction,
                t_pauli_opt |-> t_pauli_opt, remove_pauli |-> remove_pauli,
                epsilon |-> epsilon, sequence |-> ""]
    /\ raised' = ""
    /\ UNCHANGED gridsynth

\* circuit_copy = make_unique<Circuit>(circuit): the driver owns a copy
apply_transforms(fn, epsilon, to_pbc, to_clifford_reduction, keep_cx, t_pauli_opt, remove_pauli, keep_ccx, silent, epsilon_override) ==
    Enter(circuit,
          ApplyTransformsPasses(to_pbc, to_clifford_reduction, t_pauli_opt, remove_pauli),
          PassConfig(keep_ccx, keep_cx, epsilon_override, silent),
          [fn |-> fn, to_pbc |-> to_pbc, to_clifford_reduction |-> to_clifford_reduction,
           t_pauli_opt |-> t_pauli_opt, remove_pauli |-> remove_pauli, epsilon |-> epsilon,
           sequence |-> ""])

\* epsilon.is_none() ? -1.0 : epsilon.cast<double>()
eps_override(epsilon) == IF epsilon = <<>> THEN -1 ELSE epsilon[1]

to_clifford_t(keep_ccx, epsilon) ==
    apply_transforms("to_clifford_t", epsilon, FALSE, FALSE, FALSE, FALSE, FALSE, keep_ccx,
                     TRUE, eps_override(epsilon))

to_pbc(keep_cx, epsilon) ==
    apply_transforms("to_pbc", epsilon, TRUE, FALSE, keep_cx, FALSE, FALSE, FALSE, TRUE,
                     eps_override(epsilon))

to_taco(epsilon) ==
    apply_transforms("to_taco", epsilon, FALSE, TRUE, FALSE, FALSE, FALSE, FALSE, TRUE,
                     eps_override(epsilon))

fuse_t(epsilon) ==
    apply_transforms("fuse_t", epsilon, FALSE, FALSE, FALSE, TRUE, FALSE, FALSE, TRUE,
                     eps_override(epsilon))

-----------------------------------------------------------------------------
(* Inputs of the driver *)

\* tolerances, in units of the default multiplier; -1 is PassConfig's default
EpsValues == {-2, -1, 0, 1}

PyEpsilons == {<<>>} \cup {<<e>> : e \in EpsValues}

Configs ==
    {PassConfig(kccx, kcx, e, sil) :
        kccx \in BOOLEAN, kcx \in BOOLEAN, e \in EpsValues, sil \in BOOLEAN}

PassLists == SeqsUpTo(PassKinds, MaxPasses)

Measure(q, b) == Operation("MEASURE", <<q>>, <<>>, <<b>>, NoPauli)

TPauli(p) == Operation("T_PAULI", <<>>, <<>>, <<>>, from_string(p))

InputCircuits ==
    { MakeCircuit(1, 0, <<>>),
      MakeCircuit(1, 1, <<Gate("H", <<0>>), RzOp(0, 1), Gate("X", <<0>>), Measure(0, 0)>>),
      MakeCircuit(1, 0, <<RzOp(0, 0), RzOp(0, 8), RzOp(0, 2)>>),
      MakeCircuit(3, 0, <<Gate("CCX", <<0, 1, 2>>)>>),
      MakeCircuit(2, 0, <<Gate("H", <<0>>), Gate("CX", <<0, 1>>), Gate("T", <<1>>),
                          Gate("T", <<1>>)>>),
      MakeCircuit(2, 0, <<Operation("RY", <<0>>, <<3>>, <<>>, NoPauli),
                          Gate("CZ", <<0, 1>>)>>),
      MakeCircuit(2, 0, <<TPauli(<<"+", "X", "I">>), TPauli(<<"+", "X", "I">>)>>) }

Init ==
    /\ circuit \in InputCircuits
    /\ raised = ""
    /\ gridsynth \in BOOLEAN
    /\ DriverIdle

\* the calls a caller can make while no pipeline is running
Calls ==
    \/ \E ps \in PassLists, cfg \in Configs : Transpiler_execute_passes(ps, cfg)
    \/ \E name \in SequenceNames, cfg \in Configs : Transpiler_execute_sequence(name, cfg)
    \/ \E a, b, c, d, e, f, g \in BOOLEAN, eps \in EpsValues :
            apply_transforms("apply_transforms", <<>>, a, b, c, d, e, f, g, eps)
    \/ \E keep_ccx \in BOOLEAN, epsilon \in PyEpsilons : to_clifford_t(keep_ccx, epsilon)
    \/ \E keep_cx \in BOOLEAN, epsilon \in PyEpsilons : to_pbc(keep_cx, epsilon)
    \/ \E epsilon \in PyEpsilons : to_taco(epsilon)
    \/ \E epsilon \in PyEpsilons : fuse_t(epsilon)

Next ==
    \/ pc = "idle" /\ Calls
    \/ LoopSkip
    \/ LoopRun
    \/ LoopThrow
    \/ Finish

Spec == Init /\ [][Next]_vars


-----------------------------------------------------------------------------
(* The passes one at a time: every small circuit through every pass kind *)

\* longest operation sequence of the circuits handed to a single pass
MaxGates == 3

\* gates of the two-qubit standard circuits
CoreGates ==
    { Gate("H", <<0>>), Gate("S", <<0>>), Gate("T", <<0>>), Gate("TDG", <<0>>),
      Gate("X", <<0>>), Gate("T", <<1>>), Gate("CX", <<0, 1>>), RzOp(0, 3), Measure(0, 0),
      Gate("BARRIER", <<0, 1>>) }

\* the remaining kinds, each as a circuit of one operation on three qubits
OtherGates ==
    { Gate("CCX", <<0, 1, 2>>), Gate("SWAP", <<0, 1>>), Gate("CZ", <<0, 1>>),
      Operation("RX", <<0>>, <<1>>, <<>>, NoPauli), Operation("RY", <<0>>, <<3>>, <<>>, NoPauli),
      Gate("SX", <<0>>), Gate("SXDG", <<0>>), Gate("Y", <<0>>), Gate("Z", <<0>>),
      Gate("SDG", <<0>>), Gate("RESET", <<0>>), RzOp(0, 2) }

PauliOf(type, p) == Operation(type, <<>>, <<>>, <<>>, from_string(p))

\* operations of the two-qubit Pauli-based circuits
PbcGates ==
    { PauliOf("T_PAULI", <<"+", "X", "I">>), PauliOf("T_PAULI", <<"-", "X", "I">>),
      PauliOf("T_PAULI", <<"+", "Z", "I">>), PauliOf("T_PAULI", <<"+", "I", "Z">>),
      PauliOf("S_PAULI", <<"+", "X", "I">>),
      Operation("M_PAULI", <<>>, <<>>, <<0>>, from_string(<<"+", "Z", "I">>)) }

PassInputs ==
    {MakeCircuit(2, 1, ops) : ops \in SeqsUpTo(CoreGates, MaxGates)}
        \cup {MakeCircuit(2, 1, ops) : ops \in SeqsUpTo(PbcGates, MaxGates)}
        \cup {MakeCircuit(3, 1, <<g>>) : g \in OtherGates}

QuietConfig(keep_ccx, keep_cx) == PassConfig(keep_ccx, keep_cx, -1, TRUE)

PassRun(ps, cfg) == [passes |-> ps, config |-> cfg]

\* one pass, or the same pass twice, with the flags that pass reads
PassRuns ==
    {PassRun(ps, QuietConfig(k, FALSE)) :
        ps \in {<<PassType_DECOMPOSE>>, <<PassType_DECOMPOSE, PassType_DECOMPOSE>>},
        k \in BOOLEAN}
    \cup {PassRun(<<PassType_TO_PBC>>, QuietConfig(k, x)) : k \in BOOLEAN, x \in BOOLEAN}
    \cup {PassRun(ps, QuietConfig(FALSE, FALSE)) :
            ps \in {<<PassType_REMOVE_TRIVIAL_RZ>>, <<PassType_SYNTHESIZE_RZ>>,
                    <<PassType_GATE_FUSION>>, <<PassType_GATE_FUSION, PassType_GATE_FUSION>>,
                    <<PassType_REMOVE_PAULI>>, <<PassType_CLIFFORD_REDUCTION>>,
                    <<PassType_TFUSE>>, <<PassType_TFUSE, PassType_TFUSE>>,
                    <<PassType_OutOfRange>>}}

InitPass ==
    /\ circuit \in PassInputs
    /\ raised = ""
    /\ gridsynth = TRUE
    /\ DriverIdle

NextPass ==
    \/ pc = "idle" /\ \E r \in PassRuns : Transpiler_execute_passes(r.passes, r.config)
    \/ LoopSkip
    \/ LoopRun
    \/ LoopThrow
    \/ Finish

SpecPass == InitPass /\ [][NextPass]_vars

-----------------------------------------------------------------------------
(* PauliOp pairs: T-fuse on T(P), T(Q), T(P) for every two strings P and Q *)

\* longest Pauli string
MaxPauliLen == 2

PauliOps(n) ==
    {[negative |-> sg, ops |-> w] : sg \in BOOLEAN, w \in [1..n -> {"I", "X", "Y", "Z"}]}

TRotation(P) == Operation("T_PAULI", <<>>, <<>>, <<>>, P)

PauliInputCircuits ==
    UNION {{MakeCircuit(n, 0, <<TRotation(P), TRotation(Q), TRotation(P)>>) :
                P \in PauliOps(n), Q \in PauliOps(n)} : n \in 1..MaxPauliLen}

InitPauli ==
    /\ circuit \in PauliInputCircuits
    /\ raised = ""
    /\ gridsynth = TRUE
    /\ DriverIdle

NextPauli ==
    \/ pc = "idle" /\ fuse_t(<<>>)
    \/ LoopRun
    \/ Finish

SpecPauli == InitPauli /\ [][NextPauli]_vars

-----------------------------------------------------------------------------
(* Vocabulary of the properties *)

\* the entries for which a pass object can be created in this build
CanCreate(type) ==
    /\ type \in PassTypes
    /\ type = PassType_SYNTHESIZE_RZ => gridsynth

RECURSIVE CreatableBelow(_)
\* indices i < n of the pass list whose entry can be created, ascending
CreatableBelow(n) ==
    IF n <= 1 THEN <<>>
    ELSE IF CanCreate(passes[n - 1])
         THEN Append(CreatableBelow(n - 1), n - 1)
         ELSE CreatableBelow(n - 1)

\* the circuit the next entry receives, according to the run history
Current == IF runlog = <<>> THEN circuit ELSE runlog[Len(runlog)].after

-----------------------------------------------------------------------------
(* C1: execute_passes runs the passes in list order.  While the loop runs and
   when the call has returned, the runs invoked so far are exactly the
   creatable entries among those already visited, once each and in list
   order; the first run received the input circuit, every later run received
   the circuit the run before it left, the driver holds the circuit the last
   run left, and the circuit returned is that circuit. *)
C1_RunsInListOrder ==
    pc \in {"loop", "done"} =>
        LET expected == CreatableBelow(idx) IN
        /\ Len(runlog) = Len(expected)
        /\ \A k \in 1..Len(runlog) :
              /\ runlog[k].index = expected[k]
              /\ runlog[k].type = passes[expected[k]]
              /\ ~runlog[k].threw
              /\ runlog[k].before = (IF k = 1 THEN circuit ELSE runlog[k - 1].after)
        /\ pc = "loop" => work = <<Current>>
        /\ pc = "done" => idx = Len(passes) + 1 /\ ret = <<Current>>

\* a returned call in which two passes ran and both changed the circuit
C1_Witness ==
    /\ pc = "done"
    /\ Len(runlog) >= 2
    /\ runlog[1].after # runlog[1].before
    /\ runlog[2].after # runlog[2].before
    /\ ret = <<runlog[Len(runlog)].after>>


-----------------------------------------------------------------------------
(* C3: a pass whose run propagates an error ends the pipeline. *)

\* C3 as stated: after the failure the caller holds the error and the
\* partially transformed circuit (the circuit the earlier passes left)
C3_Original_PartialCircuitReturned ==
    pc = "thrown" => raised # "" /\ ret = <<runlog[Len(runlog)].before>>

\* C3 as amended: the failing run is the last run of the call, the caller
\* receives the error, and no circuit is returned: the circuit the driver
\* owned is gone
C3_ErrorEndsPipeline ==
    /\ \A k \in 1..Len(runlog) : runlog[k].threw => k = Len(runlog) /\ pc = "thrown"
    /\ pc = "thrown" =>
          /\ runlog # <<>> /\ runlog[Len(runlog)].threw
          /\ runlog[Len(runlog)].index = idx
          /\ raised # ""
          /\ ret = <<>>
          /\ work = <<>>

\* a pass failed after an earlier pass had changed the circuit, with entries left
C3_Witness ==
    /\ pc = "thrown"
    /\ Len(runlog) >= 2
    /\ runlog[1].after # circuit
    /\ idx < Len(passes)

-----------------------------------------------------------------------------
(* C4: an entry that cannot be materialised is skipped.  The step that visits
   such an entry leaves the owned circuit, the run history and the result
   untouched and moves on to the next entry; and when the call returns, every
   entry that can be created has run. *)
C4_SkipStep ==
    (InLoop /\ ~CanCreate(passes[idx])) =>
        /\ work' = work
        /\ runlog' = runlog
        /\ ret' = ret
        /\ passes' = passes
        /\ idx' = idx + 1
        /\ pc' = "loop"

C4_AllCreatableRan ==
    pc = "done" =>
        \A i \in 1..Len(passes) :
            CanCreate(passes[i]) => \E k \in 1..Len(runlog) : runlog[k].index = i

C4_SkippedEntryLeavesCircuit == [][C4_SkipStep]_vars /\ []C4_AllCreatableRan

\* SYNTHESIZE_RZ was skipped for want of a backend, a later pass ran, and the
\* returned circuit still holds an RZ
C4_Witness ==
    /\ pc = "done"
    /\ ~gridsynth
    /\ \E i \in 1..Len(passes) :
          /\ passes[i] = PassType_SYNTHESIZE_RZ
          /\ created[i] = <<>>
          /\ \E k \in 1..Len(runlog) : runlog[k].index > i
    /\ CountType(ret[1], "RZ") > 0

-----------------------------------------------------------------------------
(* C5: warnings for skipped entries. *)

RECURSIVE SkippedBelow(_)
\* indices i < n of the pass list whose entry cannot be created, ascending
SkippedBelow(n) ==
    IF n <= 1 THEN <<>>
    ELSE IF CanCreate(passes[n - 1])
         THEN SkippedBelow(n - 1)
         ELSE Append(SkippedBelow(n - 1), n - 1)

\* C5 as stated: one warning per skipped entry, for every PassConfig
C5_Original_WarningPerSkip ==
    pc # "idle" => Len(cerr) = Len(SkippedBelow(idx))

\* C5 as amended: with silent = false there is exactly one warning per skipped
\* entry, in list order, naming the entry; with silent = true there is none
C5_WarningUnlessSilent ==
    pc # "idle" =>
        LET skipped == SkippedBelow(idx) IN
        IF config.silent
        THEN cerr = <<>>
        ELSE /\ Len(cerr) = Len(skipped)
             /\ \A k \in 1..Len(cerr) :
                   cerr[k] = "Warning: Unknown pass type: "
                                \o pass_type_to_string(passes[skipped[k]])

\* both kinds of skip were warned about in one call
C5_Witness ==
    /\ pc = "done"
    /\ ~config.silent
    /\ cerr = <<"Warning: Unknown pass type: SYNTHESIZE_RZ",
                "Warning: Unknown pass type: UNKNOWN">>

-----------------------------------------------------------------------------
(* C6: the statistics rows. *)

PassRows == SelectSeq(cout, LAMBDA r : r.kind = "pass")

-----------------------------------------------------------------------------
(* C7: every predefined complete workflow is the full preprocessing prefix
   followed by its format passes only: GATE_FUSION for TO_CLIFFORD_T, TO_PBC
   for TO_PBC, the TO_PBC sequence then TFUSE for TO_PBC_OPTIMIZED,
   CLIFFORD_REDUCTION for TO_CLIFFORD_REDUCTION; BASIC_PREPROCESSING is
   [DECOMPOSE, REMOVE_TRIVIAL_RZ] and FULL_PREPROCESSING adds SYNTHESIZE_RZ. *)
C7_WorkflowsExtendFullPreprocessing ==
    (pc # "idle" /\ call.fn = "execute_sequence") =>
        LET basic == <<PassType_DECOMPOSE, PassType_REMOVE_TRIVIAL_RZ>>
            full == basic \o <<PassType_SYNTHESIZE_RZ>>
        IN  /\ call.sequence = "BASIC_PREPROCESSING" => passes = basic
            /\ call.sequence = "FULL_PREPROCESSING" => passes = full
            /\ call.sequence = "TO_CLIFFORD_T" => passes = full \o <<PassType_GATE_FUSION>>
            /\ call.sequence = "TO_PBC" => passes = full \o <<PassType_TO_PBC>>
            /\ call.sequence = "TO_PBC_OPTIMIZED" =>
                    passes = full \o <<PassType_TO_PBC, PassType_TFUSE>>
            /\ call.sequence = "TO_CLIFFORD_REDUCTION" =>
                    passes = full \o <<PassType_CLIFFORD_REDUCTION>>

\* execute_sequence has run TO_PBC_OPTIMIZED to the end, all five passes
C7_Witness ==
    /\ pc = "done"
    /\ call.fn = "execute_sequence"
    /\ call.sequence = "TO_PBC_OPTIMIZED"
    /\ [k \in 1..Len(runlog) |-> runlog[k].type] = TO_PBC \o <<PassType_TFUSE>>

-----------------------------------------------------------------------------
(* C8: the pass lists apply_transforms builds. *)

ApplyFns == {"apply_transforms", "to_clifford_t", "to_pbc", "to_taco", "fuse_t"}

BuiltByApply == pc # "idle" /\ call.fn \in ApplyFns

\* the built list without the REMOVE_PAULI the caller asked for
ListBody ==
    IF call.remove_pauli /\ passes # <<>> /\ passes[Len(passes)] = PassType_REMOVE_PAULI
    THEN SubSeq(passes, 1, Len(passes) - 1)
    ELSE passes

RemovePauliLastIffRequested ==
    /\ call.remove_pauli => (passes # <<>> /\ passes[Len(passes)] = PassType_REMOVE_PAULI)
    /\ \A i \in 1..Len(ListBody) : ListBody[i] # PassType_REMOVE_PAULI

-----------------------------------------------------------------------------
(* C9: PBC conversion requested together with T-count optimisation runs
   DECOMPOSE, REMOVE_TRIVIAL_RZ, SYNTHESIZE_RZ, TO_PBC and then TFUSE. *)
C9_PbcThenTfuse ==
    (BuiltByApply /\ call.to_pbc /\ call.t_pauli_opt) =>
        ListBody = <<PassType_DECOMPOSE, PassType_REMOVE_TRIVIAL_RZ, PassType_SYNTHESIZE_RZ,
                     PassType_TO_PBC, PassType_TFUSE>>

-----------------------------------------------------------------------------
(* C10: every SYNTHESIZE_RZ pass the driver creates is given the uniform
   tolerance epsilon_override exactly when epsilon_override >= 0 and is
   default-constructed (per-angle tolerance) exactly when it is negative; the
   default PassConfig selects the per-angle default, and so does a python
   epsilon of None. *)
PyFns == {"to_clifford_t", "to_pbc", "to_taco", "fuse_t"}

IsSynthesizeRzPass(i) ==
    /\ passes[i] = PassType_SYNTHESIZE_RZ
    /\ created[i] # <<>>

C10_EpsilonOverrideSelectsTolerance ==
    /\ \A i \in 1..Len(created) :
          IsSynthesizeRzPass(i) =>
              /\ created[i][1].cls = "SynthesizeRzPass"
              /\ (created[i][1].epsilon = <<config.epsilon_override>>)
                    <=> (config.epsilon_override >= 0)
              /\ (created[i][1].epsilon = <<>>) <=> (config.epsilon_override < 0)
              /\ config = DefaultPassConfig => created[i][1].epsilon = <<>>
              /\ (call.fn \in PyFns /\ call.epsilon = <<>>) => created[i][1].epsilon = <<>>
    /\ DefaultPassConfig.epsilon_override = -1

\* a synthesis pass was created with the uniform tolerance 0
C10_Witness ==
    \E i \in 1..Len(created) :
        /\ IsSynthesizeRzPass(i)
        /\ config.epsilon_override = 0
        /\ created[i][1].epsilon = <<0>>

-----------------------------------------------------------------------------
(* C11: every module-level transform (to_clifford_t, to_pbc, to_taco, fuse_t)
   leaves the circuit passed in unchanged, at the call and at every step of
   the pipeline it starts (operations, qubit count and classical-bit count
   alike), and what it returns on completion is a circuit of its own. *)
C11_InputStep ==
    call'.fn \in PyFns =>
        /\ circuit'.operations = circuit.operations
        /\ circuit'.num_qubits = circuit.num_qubits
        /\ circuit'.num_cbits = circuit.num_cbits

C11_ReturnsCircuit == (pc = "done" /\ call.fn \in PyFns) => Len(ret) = 1

C11_TransformsLeaveInputUnchanged == [][C11_InputStep]_vars /\ []C11_ReturnsCircuit

\* to_pbc has returned a circuit that differs from the non-empty input
C11_Witness ==
    /\ pc = "done"
    /\ call.fn = "to_pbc"
    /\ circuit.operations # <<>>
    /\ Len(ret) = 1
    /\ ret[1].operations # circuit.operations

-----------------------------------------------------------------------------
(* C12: a gate-adding call rejected for PBC/standard mixing raises and leaves
   the operation sequence exactly as it was; a call is rejected only on a
   circuit that holds an operation other than a barrier; no Pauli-based
   operation is ever added to a circuit holding a non-Pauli, non-barrier
   operation and no x, y or z to a circuit holding a Pauli-based operation. *)
C12_RejectStep ==
    /\ raised' = "RuntimeError" =>
          /\ circuit' = circuit
          /\ circuit_has_pauli_ops(circuit) \/ circuit_has_non_pauli_ops(circuit)
    /\ Len(circuit'.operations) = Len(circuit.operations) + 1 =>
          LET op == circuit'.operations[Len(circuit'.operations)] IN
              /\ SubSeq(circuit'.operations, 1, Len(circuit.operations)) = circuit.operations
              /\ is_pauli_op(op.type) => ~circuit_has_non_pauli_ops(circuit)
              /\ op.type \in {"X", "Y", "Z"} => ~circuit_has_pauli_ops(circuit)
    /\ Len(circuit'.operations) \in {Len(circuit.operations), Len(circuit.operations) + 1}

C12_RejectionLeavesCircuit == [][C12_RejectStep]_vars

\* x, y or z was rejected on a circuit whose only operation is a Pauli rotation
C12_Witness ==
    /\ raised = "RuntimeError"
    /\ Len(circuit.operations) = 1
    /\ circuit.operations[1].type = "T_PAULI"

-----------------------------------------------------------------------------
(* C13: every pass the driver runs leaves num_qubits and the classical-bit
   count of the circuit as they were, and so does every pipeline: the circuit
   returned has the registers of the circuit handed in. *)
SameRegisters(a, b) == a.num_qubits = b.num_qubits /\ a.num_cbits = b.num_cbits

-----------------------------------------------------------------------------
(* C14: after the TO_PBC pass has run on a Clifford+T circuit, every operation
   is a T_PAULI, S_PAULI, Z_PAULI, M_PAULI or BARRIER, or a CX when keep_cx is
   set; no single-qubit Clifford, T, T-dagger or MEASURE remains. *)
PbcOutputTypes(keep_cx) ==
    PauliTypes \cup {"BARRIER"} \cup (IF keep_cx THEN {"CX"} ELSE {})

-----------------------------------------------------------------------------
(* C15: TFuse never increases the T-count: on a Pauli-based input the number
   of T_PAULI operations after the TFUSE pass is at most the number before. *)
IsPbc(c) == ~circuit_has_non_pauli_ops(c)

C15_TfuseMonotone ==
    \A k \in 1..Len(runlog) :
        (runlog[k].type = PassType_TFUSE /\ IsPbc(runlog[k].before))
            => CountType(runlog[k].after, "T_PAULI") <= CountType(runlog[k].before, "T_PAULI")

\* TFUSE has lowered the T-count of a circuit that also holds an S rotation
C15_Witness ==
    \E k \in 1..Len(runlog) :
        /\ runlog[k].type = PassType_TFUSE
        /\ IsPbc(runlog[k].before)
        /\ "S_PAULI" \in TypesOf(runlog[k].before)
        /\ CountType(runlog[k].after, "T_PAULI") < CountType(runlog[k].before, "T_PAULI")

-----------------------------------------------------------------------------
(* C16: TFuse on two adjacent T_PAULI rotations about P and Q: P = Q with the
   same sign leaves one S_PAULI(P); P = -Q leaves nothing; anticommuting P and
   Q are not combined and keep their order. *)
TwoTRotations(c) ==
    /\ Len(c.operations) = 2
    /\ c.operations[1].type = "T_PAULI"
    /\ c.operations[2].type = "T_PAULI"

\* every two T rotations of the circuit anticommute, and it holds nothing else
AllAnticommute(c) ==
    /\ TypesOf(c) \subseteq {"T_PAULI"}
    /\ \A i, j \in 1..Len(c.operations) :
          i # j => ~commutes_with(c.operations[i].pauli, c.operations[j].pauli)

C16_TfuseCombine ==
    \A k \in 1..Len(runlog) :
        runlog[k].type = PassType_TFUSE =>
            LET b == runlog[k].before
                a == runlog[k].after
                P == b.operations[1].pauli
                Q == b.operations[2].pauli
            IN  /\ (TwoTRotations(b) /\ P = Q) =>
                        a.operations = <<Operation("S_PAULI", <<>>, <<>>, <<>>, P)>>
                /\ (TwoTRotations(b) /\ P = Negate(Q)) => a.operations = <<>>
                /\ (TwoTRotations(b) /\ ~commutes_with(P, Q)) => a.operations = b.operations
                /\ AllAnticommute(b) => a.operations = b.operations

\* TFUSE turned [T_PAULI(+XI), T_PAULI(+XI)] into [S_PAULI(+XI)]
C16_Witness ==
    \E k \in 1..Len(runlog) :
        /\ runlog[k].type = PassType_TFUSE
        /\ runlog[k].before.operations =
              <<PauliOf("T_PAULI", <<"+", "X", "I">>), PauliOf("T_PAULI", <<"+", "X", "I">>)>>
        /\ runlog[k].after.operations = <<PauliOf("S_PAULI", <<"+", "X", "I">>)>>

-----------------------------------------------------------------------------
(* C17: Decompose is idempotent: for either value of keep_ccx a second
   DECOMPOSE run leaves the circuit the first run produced unchanged, so two
   runs yield what one run yields. *)
C17_DecomposeIdempotent ==
    \A k \in 1..Len(runlog) :
        (k > 1 /\ runlog[k].type = PassType_DECOMPOSE /\ runlog[k - 1].type = PassType_DECOMPOSE)
            => /\ runlog[k].before = runlog[k - 1].after
               /\ runlog[k].after.operations = runlog[k - 1].after.operations

\* DECOMPOSE ran twice on a circuit the first run rewrote
C17_Witness ==
    /\ pc = "done"
    /\ passes = <<PassType_DECOMPOSE, PassType_DECOMPOSE>>
    /\ Len(runlog) = 2
    /\ runlog[1].after.operations # runlog[1].before.operations
    /\ ret[1].operations = runlog[1].after.operations

-----------------------------------------------------------------------------
(* C19: GateFusion terminates: it makes at most min(|ops|, 64) traversals,
   stops at the first traversal that changes nothing, and the circuit it then
   leaves is a fixed point: no fusion or cancellation rule applies to it. *)

\* ops[j] is the operation ops[i] meets next on one of its qubits, with only
\* operations on other qubits, and neither barrier nor measurement, in between
Meets(ops, i, j) ==
    /\ i < j
    /\ ~Fence(ops[i]) /\ ~Fence(ops[j])
    /\ OpQubits(ops[i]) \cap OpQubits(ops[j]) # {}
    /\ \A m \in (i + 1)..(j - 1) :
          ~Fence(ops[m]) /\ OpQubits(ops[m]) \cap OpQubits(ops[i]) = {}

NoRuleApplies(ops) ==
    \A i, j \in 1..Len(ops) :
        Meets(ops, i, j) => FusePair(ops[i], ops[j]) = <<ops[i], ops[j]>>

FusionOf(c) == FusionLoop(c.operations, FusionCap(c.operations), 0)

-----------------------------------------------------------------------------
(* C18: PauliOp.commutes_with is the parity test: P commutes with Q exactly
   when the number of indices at which both are non-identity and distinct is
   even; the relation is symmetric and every P commutes with itself and with
   -P.  It agrees with the sign of the commutator P.Q.P^-1.Q^-1 and it is what
   lets T-fuse bring T(P) past T(Q) to a second T(P). *)
AnticommutingLetters ==
    {<<"X", "Y">>, <<"Y", "X">>, <<"X", "Z">>, <<"Z", "X">>, <<"Y", "Z">>, <<"Z", "Y">>}

RECURSIVE AnticommutingIndices(_, _, _)
\* how many of the first n indices carry anticommuting letters
AnticommutingIndices(P, Q, n) ==
    IF n = 0 THEN 0
    ELSE AnticommutingIndices(P, Q, n - 1)
            + (IF <<P.ops[n], Q.ops[n]>> \in AnticommutingLetters THEN 1 ELSE 0)

EvenParity(P, Q) == AnticommutingIndices(P, Q, Len(P.ops)) % 2 = 0

FirstP == circuit.operations[1].pauli
SecondQ == circuit.operations[2].pauli

C18_CommutesWithIsParity ==
    /\ commutes_with(FirstP, SecondQ) <=> EvenParity(FirstP, SecondQ)
    /\ commutes_with(FirstP, SecondQ) <=> commutes_with(SecondQ, FirstP)
    /\ commutes_with(FirstP, FirstP)
    /\ commutes_with(FirstP, Negate(FirstP))
    /\ commutes_with(FirstP, SecondQ)
          <=> (multiply(FirstP, SecondQ).phase = multiply(SecondQ, FirstP).phase)
    /\ multiply(FirstP, SecondQ).op = multiply(SecondQ, FirstP).op
    /\ (runlog # <<>> /\ SecondQ \notin {FirstP, Negate(FirstP)}) =>
          IF EvenParity(FirstP, SecondQ)
          THEN runlog[1].after.operations =
                  <<Operation("S_PAULI", <<>>, <<>>, <<>>, FirstP), TRotation(SecondQ)>>
          ELSE runlog[1].after.operations = circuit.operations

\* T-fuse combined the outer rotations across a string that differs from
\* theirs at two indices
C18_Witness ==
    /\ pc = "done"
    /\ Len(FirstP.ops) = 2
    /\ \A i \in 1..2 : <<FirstP.ops[i], SecondQ.ops[i]>> \in AnticommutingLetters
    /\ Len(ret[1].operations) = 2
    /\ ret[1].operations[1].type = "S_PAULI"

-----------------------------------------------------------------------------
(* C20: the silent flag affects output only.  A silent call writes no header,
   no per-pass row and no final statistics, and the circuit it returns and the
   passes it runs are those of the same call (same circuit, same pass list,
   same remaining configuration) made with silent = false. *)
RECURSIVE PipelineFrom(_, _, _, _, _)
\* the driver's loop from entry i on, without its output
PipelineFrom(c, ps, cfg, i, log) ==
    IF i > Len(ps) THEN [ret |-> <<c>>, runs |-> log, raised |-> ""]
    ELSE IF create_pass(ps[i], cfg) = <<>> THEN PipelineFrom(c, ps, cfg, i + 1, log)
    ELSE LET pass == create_pass(ps[i], cfg)[1]
         IN  IF PassThrows(pass, c)
             THEN [ret |-> <<>>, runs |-> Append(log, RunEntry(i, ps[i], c, c, TRUE)),
                   raised |-> "runtime_error"]
             ELSE PipelineFrom(Run(pass, c).circuit, ps, cfg, i + 1,
                               Append(log, RunEntry(i, ps[i], c, Run(pass, c).circuit, FALSE)))

\* the same call with the other value of silent
OtherSilent == [config EXCEPT !.silent = ~config.silent]

C20_SilentAffectsOutputOnly ==
    /\ (pc # "idle" /\ config.silent) => cout = <<>>
    /\ (pc = "done" /\ ~config.silent) =>
            /\ Len(cout) = Len(runlog) + 2
            /\ cout[1].kind = "header"
            /\ cout[Len(cout)].kind = "final"
            /\ \A k \in 1..Len(runlog) : cout[k + 1].kind = "pass"
    /\ pc \in {"done", "thrown"} =>
            LET o == PipelineFrom(circuit, passes, OtherSilent, 1, <<>>)
            IN  /\ ret = o.ret
                /\ runlog = o.runs
                /\ raised = o.raised

\* a silent call ran synthesis and another pass, changed the circuit and wrote nothing
C20_Witness ==
    /\ pc = "done"
    /\ config.silent
    /\ cout = <<>>
    /\ Len(runlog) >= 2
    /\ \E k \in 1..Len(runlog) : runlog[k].type = PassType_SYNTHESIZE_RZ
    /\ ret[1] # circuit

-----------------------------------------------------------------------------
(* C21: create_pass forwards each configuration field only to the pass it
   belongs to.  keep_ccx reaches DECOMPOSE only, keep_cx reaches TO_PBC only,
   epsilon_override reaches SYNTHESIZE_RZ only; the passes of the other kinds
   are the same under every PassConfig; and one pass object is created for
   every list entry reached, repeated kinds included. *)
ConfigFreeKinds ==
    {PassType_REMOVE_TRIVIAL_RZ, PassType_GATE_FUSION, PassType_REMOVE_PAULI,
     PassType_CLIFFORD_REDUCTION, PassType_TFUSE}

\* the configuration field a pass kind reads, as a function of the configuration
FieldOf(type, cfg) ==
    CASE type = PassType_DECOMPOSE -> <<"keep_ccx", cfg.keep_ccx>>
      [] type = PassType_TO_PBC -> <<"keep_cx", cfg.keep_cx>>
      [] type = PassType_SYNTHESIZE_RZ ->
            <<"epsilon_override", IF cfg.epsilon_override >= 0 THEN cfg.epsilon_override ELSE -1>>
      [] OTHER -> <<"none", 0>>

\* the entries of the pass list the loop has been through
EntriesReached ==
    CASE pc = "loop" -> idx - 1
      [] pc = "thrown" -> idx
      [] pc = "done" -> Len(passes)
      [] OTHER -> 0

C21_ConfigFieldsReachTheirPassOnly ==
    /\ Len(created) = EntriesReached
    /\ \A k \in 1..Len(created) :
        /\ created[k] = create_pass(passes[k], config)
        /\ \A cfg \in Configs :
            /\ FieldOf(passes[k], cfg) = FieldOf(passes[k], config)
                    => create_pass(passes[k], cfg) = created[k]
            /\ (FieldOf(passes[k], cfg) # FieldOf(passes[k], config) /\ created[k] # <<>>)
                    => create_pass(passes[k], cfg) # created[k]
        /\ passes[k] \in ConfigFreeKinds =>
                \A cfg \in Configs : create_pass(passes[k], cfg) = created[k]

\* a list that names the decomposition twice, with keep_ccx and keep_cx set
\* differently, has been through both entries
C21_Witness ==
    /\ pc = "done"
    /\ passes = <<PassType_DECOMPOSE, PassType_DECOMPOSE>>
    /\ config.keep_ccx /\ ~config.keep_cx
    /\ Len(created) = 2
    /\ created[1] = created[2]
    /\ created[1] # <<>>

-----------------------------------------------------------------------------
(* C22: epsilon_override has no effect on a pipeline that runs no SYNTHESIZE_RZ
   pass.  When the pass list holds no SYNTHESIZE_RZ (fuse_t's [TFUSE] is one),
   or when the grid-synthesis backend is absent, the call ends with the same
   circuit (or the same exception) under every value of epsilon_override. *)
NamesSynthesis == \E k \in 1..Len(passes) : passes[k] = PassType_SYNTHESIZE_RZ

WithEpsilon(e) == [config EXCEPT !.epsilon_override = e]

C22_EpsilonIrrelevantWithoutSynthesis ==
    (pc \in {"done", "thrown"} /\ (~NamesSynthesis \/ ~gridsynth)) =>
        \A e \in EpsValues :
            LET o == PipelineFrom(circuit, passes, WithEpsilon(e), 1, <<>>)
            IN  /\ o.ret = ret
                /\ o.raised = raised
                /\ \A k \in 1..Len(runlog) : runlog[k].type # PassType_SYNTHESIZE_RZ

\* fuse_t was given a tolerance, fused two rotations and returned
C22_Witness ==
    /\ pc = "done"
    /\ call.fn = "fuse_t"
    /\ call.epsilon # <<>>
    /\ config.epsilon_override >= 0
    /\ passes = <<PassType_TFUSE>>
    /\ ret[1] # circuit

-----------------------------------------------------------------------------
(* C23: apply_transforms selects exactly one base pass sequence by a fixed
   priority: t_pauli_opt, then to_pbc, then to_clifford_reduction, then the
   default Clifford+T sequence.  Every combination of flags is accepted, to_pbc
   together with to_clifford_reduction included: the call enters the pipeline
   without an error, the list is the one chosen sequence and nothing else but
   a single REMOVE_PAULI at its end when the caller asked for it, and an
   exception that ends such a call comes from a pass's run. *)
ChosenBase ==
    CASE call.t_pauli_opt -> <<PassType_TFUSE>>
      [] ~call.t_pauli_opt /\ call.to_pbc -> TO_PBC_BASIC
      [] ~call.t_pauli_opt /\ ~call.to_pbc /\ call.to_clifford_reduction -> CLIFFORD_REDUCTION
      [] OTHER -> TO_CLIFFORD_T

C23_AcceptStep ==
    (pc = "idle" /\ pc' # "idle" /\ call'.fn \in ApplyFns) =>
        /\ pc' = "loop"
        /\ raised' = ""
        /\ passes' # <<>>

C23_OneSequence ==
    BuiltByApply =>
        /\ passes \in {ChosenBase, Append(ChosenBase, PassType_REMOVE_PAULI)}
        /\ (passes = ChosenBase) <=> ~call.remove_pauli
        /\ (call.to_pbc /\ call.to_clifford_reduction) =>
                \A k \in 1..Len(passes) : passes[k] # PassType_CLIFFORD_REDUCTION
        /\ raised # "" => (runlog # <<>> /\ runlog[Len(runlog)].threw)

=============================================================================
